---- MODULE Spec2Model ----
(***************************************************************************)
(* Model of CianBot (src/bot.py): the listing store (flatlist), the        *)
(* per-recipient ledger (viewed), the delivery queue (scheduled_messages), *)
(* the observed URL list, the reconciliation cycle fetch_cian, the command *)
(* handlers start / observe_url / fetch_messages, and persistence          *)
(* (save / from_directory / the __main__ block).                           *)
(*                                                                         *)
(* Specifications: Spec is one run of the process with its handlers and    *)
(* cycles one after the other; SpecRestart adds stop, crash and restart;   *)
(* SpecFaults adds a save that fails or is cut short; SpecOnce and         *)
(* SpecPeriodic are a process that runs on, with fairness for its jobs;    *)
(* SpecThreads runs the two jobs and /start in parallel, step by step.     *)
(*                                                                         *)
(* Python values are modelled with their type where the type decides the   *)
(* behaviour: a dict key is <<"int", n>> for the integer n and             *)
(* <<"str", n>> for the string holding the decimal digits of n.  A dict is *)
(* a sequence of [k, v] entries in insertion order.                        *)
(***************************************************************************)
EXTENDS Integers, Sequences, FiniteSets, TLC

\* ------------------------------------------------------------------ bounds
MaxId       == 2   \* listing ids 1..MaxId
MaxChat     == 2   \* chat ids 1..MaxChat
MaxUrl      == 2   \* URLs 1..MaxUrl, numbered in their lexicographic order
MaxItems    == 1   \* most items one page parse returns
MaxJobs     == 1   \* most one-off jobs waiting in the job queue
MaxArgs     == 2   \* most arguments given to /observe
MaxRestarts == 1   \* most process restarts in one behaviour
MaxCycles   == 2   \* most fetch_cian calls that enter the loop in one
                   \* behaviour, a restart counting as one

Ids   == 1..MaxId
Chats == 1..MaxChat
Urls  == 1..MaxUrl

\* ------------------------------------------------------- program constants
PriceCeiling == 35000
METRO == {"lubyanka", "trubnaya"}
METRO_BLACKLIST == {"baumanskaya"}
StateDir == "cian"
BackupDir == ".cian-backup"
Dirs == {StateDir, BackupDir}
NoFile == [exists |-> FALSE]
\* a state.json that open(..., 'w') has emptied and json.dump has not finished
Torn == [exists |-> TRUE, torn |-> TRUE]

\* ----------------------------------------------------------- Python values
IntKey(n) == <<"int", n>>
StrKey(n) == <<"str", n>>
\* json.dump writes every object key as a string: 42 becomes "42"
JsonKey(k) == StrKey(k[2])

RECURSIVE SeqToSet(_)
SeqToSet(s) == IF s = <<>> THEN {} ELSE {Head(s)} \cup SeqToSet(Tail(s))

Keys(d) == {d[n].k : n \in 1..Len(d)}
Has(d, key) == key \in Keys(d)
Get(d, key) == d[CHOOSE n \in 1..Len(d) : d[n].k = key].v
\* d[key] = val : an existing key keeps its position, a new key goes last
Put(d, key, val) ==
    IF Has(d, key)
    THEN [n \in 1..Len(d) |-> IF d[n].k = key THEN [k |-> key, v |-> val] ELSE d[n]]
    ELSE Append(d, [k |-> key, v |-> val])

\* list(a set of ints): the ids in ascending order
RECURSIVE SetToList(_)
SetToList(S) ==
    IF S = {} THEN <<>>
    ELSE LET m == CHOOSE x \in S : \A y \in S : x <= y
         IN <<m>> \o SetToList(S \ {m})

\* sorted(set(l)) for a list of URLs
SortedSet(l) == SetToList(SeqToSet(l))

\* -------------------------------------------------------- parser's listings
\* cian_parser.FlatListItem: the attributes bot.py reads.  The id is an int
\* (line 78), rooms is positive (line 47 divides by it); one listing that
\* passes both filters, one over the price ceiling, one near a blacklisted
\* station
Variants ==
    { [price |-> 3000,  rooms |-> 1, metros |-> <<"lubyanka">>, photos |-> <<>>],
      [price |-> 80000, rooms |-> 1, metros |-> <<"lubyanka">>, photos |-> <<"p1">>],
      [price |-> 3000,  rooms |-> 1, metros |-> <<"trubnaya", "baumanskaya">>,
       photos |-> <<"p1">>] }
Flats == { [id |-> i, price |-> a.price, rooms |-> a.rooms, metros |-> a.metros,
            photos |-> a.photos] : i \in Ids, a \in Variants }

RECURSIVE SeqsUpTo(_, _)
SeqsUpTo(S, n) ==
    IF n = 0 THEN {<<>>}
    ELSE LET shorter == SeqsUpTo(S, n - 1)
         IN shorter \cup {Append(s, x) : s \in {t \in shorter : Len(t) = n - 1}, x \in S}

\* ----------------------------------------------------------------- filters
\* price / rooms <= 35000, rooms positive
filter_price_per_person(flat) == flat.price <= PriceCeiling * flat.rooms

filter_metro(flat) ==
    /\ \E n \in 1..Len(flat.metros) : flat.metros[n] \in METRO
    /\ ~ \E n \in 1..Len(flat.metros) : flat.metros[n] \in METRO_BLACKLIST

\* mutant: the chain stops after its first predicate
flat_ok_price_only(flat) == filter_price_per_person(flat)

flat_ok(flat) == filter_price_per_person(flat) /\ filter_metro(flat)

\* the message body names the listing (pdf_link) and its attributes
flat_to_message(flat) ==
    [text  |-> <<flat.id, flat.price, flat.metros>>,
     photo |-> IF Len(flat.photos) > 0 THEN <<flat.photos[1]>> ELSE <<>>]


\* ------------------------------------------------------------------- state
VARIABLES
    flatlist,            \* dict: listing id -> listing            (bot.py:76)
    viewed,              \* dict: chat_id -> set of listing ids    (bot.py:78)
    scheduled_messages,  \* deque of messages                      (bot.py:79)
    observed_urls,       \* sorted list of URLs                    (bot.py:80)
    pending,             \* one-off fetch_cian jobs in the job queue
    pc,                  \* "idle", "fetch", "save", "stopped"
    urls_it,             \* the list the running fetch_cian iterates
    idx,                 \* position of that iteration
    flats,               \* the parse result of the URL handled last
    disk,                \* directory -> contents of its state.json
    restarts,            \* process restarts so far
    enqueued,            \* history: messages appended per chat and listing
                         \* since that chat's last /start
    cycles,              \* history: fetch_cian calls that entered the loop
    persisted,           \* history: <<chat, id>> recorded by a cycle's save
    tried,               \* history: URLs requested in the running cycle
    failed,              \* history: URLs that raised in the running cycle
    last,                \* the handler or step that ran last, and its outcome
    thr                  \* job -> where the fetch_cian running on that job's
                         \* thread stands, for the passes that run in
                         \* parallel with each other and with the handlers

engine == <<flatlist, viewed, scheduled_messages, observed_urls>>
cycle == <<pc, urls_it, idx, flats>>
hist == <<enqueued, cycles, persisted, tried, failed>>
vars == <<flatlist, viewed, scheduled_messages, observed_urls, pending, pc,
          urls_it, idx, flats, disk, restarts, enqueued, cycles, persisted,
          tried, failed, last, thr>>

\* the two jobs that call fetch_cian: run_repeating (line 237) and run_once
\* (line 211)
Jobs == {"periodic", "once"}
\* no fetch_cian is running on the job's thread
Off == [pc |-> "off", urls |-> <<>>, flats |-> <<>>, size |-> 0, pos |-> 0,
        u |-> <<>>, started |-> {}]

Done(op, arg, res) == [op |-> op, arg |-> arg, res |-> res]

\* the chat a ledger key or a message addresses, whatever its Python type
ChatOf(key) == key[2]

\* ---------------------------------------------------------- handle_new_flat
\* mutant: the loop over the chats ends at the first chat it notifies
RECURSIVE NotifyFirstOnly(_, _, _, _)
NotifyFirstOnly(flat, msg, n, st) ==
    IF n > Len(st.vw) THEN st
    ELSE IF flat.id \in st.vw[n].v
         THEN NotifyFirstOnly(flat, msg, n + 1, st)
         ELSE [st EXCEPT
                 !.sm = Append(@, [chat_id |-> st.vw[n].k, text |-> msg.text,
                                   photo |-> msg.photo]),
                 !.vw = Put(@, st.vw[n].k, st.vw[n].v \cup {flat.id})]

\* for u in self.viewed: skip a chat that has the id, else append and mark
RECURSIVE NotifyFrom(_, _, _, _)
NotifyFrom(flat, msg, n, st) ==
    IF n > Len(st.vw) THEN st
    ELSE LET u == st.vw[n].k
         IN IF flat.id \in st.vw[n].v
            THEN NotifyFrom(flat, msg, n + 1, st)
            ELSE NotifyFrom(flat, msg, n + 1,
                   [st EXCEPT
                      !.sm = Append(@, [chat_id |-> u, text |-> msg.text,
                                        photo |-> msg.photo]),
                      !.vw = Put(@, u, st.vw[n].v \cup {flat.id})])

\* mutant: a stored listing still goes to the chats that lack it
handle_new_flat_renotify(flat, st) ==
    LET stored == IF Has(st.fl, IntKey(flat.id)) THEN st
                  ELSE [st EXCEPT !.fl = Put(@, IntKey(flat.id), flat)]
    IN IF ~ flat_ok(flat) THEN stored
       ELSE NotifyFrom(flat, flat_to_message(flat), 1, stored)

\* mutant: a stored listing takes the attributes of the newest fetch
handle_new_flat_overwrite(flat, st) ==
    IF Has(st.fl, IntKey(flat.id))
    THEN [st EXCEPT !.fl = Put(@, IntKey(flat.id), flat)]
    ELSE LET stored == [st EXCEPT !.fl = Put(@, IntKey(flat.id), flat)]
         IN IF ~ flat_ok(flat) THEN stored
            ELSE NotifyFrom(flat, flat_to_message(flat), 1, stored)

\* mutant: an accepted new listing is announced and marked but not stored
handle_new_flat_unstored(flat, st) ==
    IF Has(st.fl, IntKey(flat.id)) THEN st
    ELSE IF ~ flat_ok(flat)
         THEN [st EXCEPT !.fl = Put(@, IntKey(flat.id), flat)]
         ELSE NotifyFrom(flat, flat_to_message(flat), 1, st)

handle_new_flat(flat, st) ==
    IF Has(st.fl, IntKey(flat.id)) THEN st
    ELSE LET stored == [st EXCEPT !.fl = Put(@, IntKey(flat.id), flat)]
         IN IF ~ flat_ok(flat) THEN stored
            ELSE NotifyFrom(flat, flat_to_message(flat), 1, stored)

\* for f in flats: self.handle_new_flat(f)
RECURSIVE HandleAll(_, _)
HandleAll(fs, st) ==
    IF fs = <<>> THEN st ELSE HandleAll(Tail(fs), handle_new_flat(Head(fs), st))

\* send_messages: popleft then send, until the queue is empty or a send
\* raises.  failAt = 0: no send raises; failAt = k: the k-th send raises,
\* after its message was popped.
send_messages(sm, failAt) ==
    IF failAt = 0 THEN <<>> ELSE SubSeq(sm, failAt + 1, Len(sm))

\* the messages a step appended: those behind the old end of the queue
Appended(before, after) == SubSeq(after, Len(before) + 1, Len(after))
Count(ms, r, i) ==
    Cardinality({n \in 1..Len(ms) : ChatOf(ms[n].chat_id) = r /\ ms[n].text[1] = i})

\* ------------------------------------------------------------- persistence
\* what json.dump(attr.asdict(CianStateSerializable(...))) writes
SaveFile(fl, vw, sm, urls) ==
    [exists |-> TRUE,
     flatlist |-> [n \in 1..Len(fl) |-> [k |-> JsonKey(fl[n].k), v |-> fl[n].v]],
     viewed |-> [n \in 1..Len(vw) |->
                   [k |-> JsonKey(vw[n].k), v |-> SetToList(vw[n].v)]],
     scheduled_messages |-> sm,
     observed_urls |-> urls]

\* json.load of an object: a repeated key keeps its first position and its
\* last value
RECURSIVE JsonObject(_, _)
JsonObject(pairs, d) ==
    IF pairs = <<>> THEN d
    ELSE JsonObject(Tail(pairs), Put(d, Head(pairs).k, Head(pairs).v))

\* from_directory: the engine state built from a state.json
LoadFlatlist(f) == JsonObject(f.flatlist, <<>>)
LoadViewed(f) ==
    LET d == JsonObject(f.viewed, <<>>)
    IN [n \in 1..Len(d) |-> [k |-> d[n].k, v |-> SeqToSet(d[n].v)]]

\* -------------------------------------------------------------------- Init
NoCount == [r \in Chats |-> [i \in Ids |-> 0]]

Init ==
    /\ flatlist = <<>>
    /\ viewed = <<>>
    /\ scheduled_messages = <<>>
    /\ observed_urls = <<>>
    /\ pending = 0
    /\ pc = "idle"
    /\ urls_it = <<>>
    /\ idx = 0
    /\ flats = <<>>
    /\ disk = [d \in Dirs |-> NoFile]
    /\ restarts = 0
    /\ enqueued = NoCount
    /\ cycles = 0
    /\ persisted = {}
    /\ tried = {}
    /\ failed = {}
    /\ last = Done("init", 0, "ok")
    /\ thr = [p \in Jobs |-> Off]

\* ---------------------------------------------------------------- handlers
\* mutant: /start replaces the whole ledger
start_clears_all(r) ==
    /\ pc = "idle"
    /\ viewed' = <<[k |-> IntKey(r), v |-> {}]>>
    /\ enqueued' = [enqueued EXCEPT ![r] = [i \in Ids |-> 0]]
    /\ persisted' = {p \in persisted : p[1] # r}
    /\ last' = Done("start", r, "ok")
    /\ UNCHANGED <<flatlist, scheduled_messages, observed_urls, pending, cycle,
                   disk, restarts, cycles, tried, failed>>
    /\ thr' = [p \in Jobs |->
                 IF thr[p].pc = "off" THEN thr[p]
                 ELSE [thr[p] EXCEPT !.started = @ \cup {r}]]

\* /start from chat r
start(r) ==
    /\ pc = "idle"
    /\ viewed' = Put(viewed, IntKey(r), {})
    /\ enqueued' = [enqueued EXCEPT ![r] = [i \in Ids |-> 0]]
    /\ persisted' = {p \in persisted : p[1] # r}
    /\ last' = Done("start", r, "ok")
    /\ UNCHANGED <<flatlist, scheduled_messages, observed_urls, pending, cycle,
                   disk, restarts, cycles, tried, failed>>
    /\ thr' = [p \in Jobs |->
                 IF thr[p].pc = "off" THEN thr[p]
                 ELSE [thr[p] EXCEPT !.started = @ \cup {r}]]

\* mutant: /observe records the URL and schedules no job
observe_url_unscheduled(args) ==
    /\ pc = "idle"
    /\ IF Len(args) # 1
       THEN UNCHANGED observed_urls
       ELSE observed_urls' = SortedSet(observed_urls \o <<args[1]>>)
    /\ last' = Done("observe_url", IF Len(args) = 1 THEN args[1] ELSE 0,
                    "AttributeError")
    /\ UNCHANGED <<flatlist, viewed, scheduled_messages, pending, cycle, disk,
                   restarts, hist>>
    /\ UNCHANGED thr

\* /observe with the argument list args.  telegram.Message has no method
\* reply, so both calls of update.message.reply raise AttributeError.
observe_url(args) ==
    /\ pc = "idle"
    /\ IF Len(args) # 1
       THEN UNCHANGED <<observed_urls, pending>>
       ELSE /\ pending < MaxJobs
            /\ observed_urls' = SortedSet(observed_urls \o <<args[1]>>)
            /\ pending' = pending + 1
    /\ last' = Done("observe_url", IF Len(args) = 1 THEN args[1] ELSE 0,
                    "AttributeError")
    /\ UNCHANGED <<flatlist, viewed, scheduled_messages, cycle, disk, restarts,
                   hist>>
    /\ UNCHANGED thr

\* mutant: fetch_messages with its names put right (f for f.id, the stored
\* listing for flat, context passed on): it appends a message for every
\* stored, accepted listing the chat has not seen, marks nothing, and flushes
RECURSIVE Backlog(_, _, _)
Backlog(fl, seen, u) ==
    IF fl = <<>> THEN <<>>
    ELSE LET rest == Backlog(Tail(fl), seen, u)
             f == Head(fl)
         IN IF f.k[2] \in seen \/ ~ flat_ok(f.v) THEN rest
            ELSE <<[chat_id |-> u, text |-> flat_to_message(f.v).text,
                    photo |-> flat_to_message(f.v).photo]>> \o rest

fetch_messages_unmarked(r) ==
    /\ pc = "idle"
    /\ LET vw == IF Has(viewed, IntKey(r)) THEN viewed
                 ELSE Put(viewed, IntKey(r), {})
           new == Backlog(flatlist, Get(vw, IntKey(r)), IntKey(r))
       IN /\ viewed' = vw
          /\ scheduled_messages' = <<>>
          /\ enqueued' = [c \in Chats |-> [i \in Ids |->
                            enqueued[c][i] + Count(new, c, i)]]
    /\ last' = Done("fetch_messages", r, "ok")
    /\ UNCHANGED <<flatlist, observed_urls, pending, cycle, disk, restarts,
                   cycles, persisted, tried, failed>>
    /\ UNCHANGED thr

\* /fetchMessages from chat r.  The loop variable f is a key of flatlist, so
\* f.id raises AttributeError at the first listing; with no listing the loop
\* is skipped and self.send_messages() lacks its argument: TypeError.
fetch_messages(r) ==
    /\ pc = "idle"
    /\ last' = Done("fetch_messages", r,
                    IF Len(flatlist) > 0 THEN "AttributeError" ELSE "TypeError")
    /\ UNCHANGED <<engine, pending, cycle, disk, restarts, hist>>
    /\ UNCHANGED thr

\* --------------------------------------------------------------- fetch_cian
\* lines 179-183: return at once without URLs, else start the loop
fetch_cian_begin ==
    IF Len(observed_urls) = 0
    THEN /\ last' = Done("fetch_cian", 0, "no URLs")
         /\ UNCHANGED <<cycle, cycles, tried, failed>>
    ELSE /\ cycles + restarts < MaxCycles
         /\ cycles' = cycles + 1
         /\ pc' = "fetch"
         /\ urls_it' = observed_urls
         /\ idx' = 1
         /\ flats' = <<>>
         /\ tried' = {}
         /\ failed' = {}
         /\ last' = Done("fetch_cian", 0, "begin")

\* the same lines in a process that runs on without end: the history
\* counter cycles is not kept, so no bound stops the jobs
fetch_cian_again ==
    /\ UNCHANGED cycles
    /\ IF Len(observed_urls) = 0
       THEN /\ last' = Done("fetch_cian", 0, "no URLs")
            /\ UNCHANGED <<cycle, tried, failed>>
       ELSE /\ pc' = "fetch"
            /\ urls_it' = observed_urls
            /\ idx' = 1
            /\ flats' = <<>>
            /\ tried' = {}
            /\ failed' = {}
            /\ last' = Done("fetch_cian", 0, "begin")

\* the run_repeating job fires, every 180 minutes for ever
periodic_job_again ==
    /\ pc = "idle"
    /\ fetch_cian_again
    /\ UNCHANGED <<engine, pending, disk, restarts, enqueued, persisted>>
    /\ UNCHANGED thr

\* a run_once job fires, 5 seconds after observe_url scheduled it
once_job_again ==
    /\ pc = "idle"
    /\ pending > 0
    /\ pending' = pending - 1
    /\ fetch_cian_again
    /\ UNCHANGED <<engine, disk, restarts, enqueued, persisted>>
    /\ UNCHANGED thr

\* the run_repeating job fires
periodic_job ==
    /\ pc = "idle"
    /\ fetch_cian_begin
    /\ UNCHANGED <<engine, pending, disk, restarts, enqueued, persisted>>
    /\ UNCHANGED thr

\* a run_once job scheduled by observe_url fires
once_job ==
    /\ pc = "idle"
    /\ pending > 0
    /\ pending' = pending - 1
    /\ fetch_cian_begin
    /\ UNCHANGED <<engine, disk, restarts, enqueued, persisted>>
    /\ UNCHANGED thr

\* the loop moves to the next URL, or leaves the loop for the save
NextUrl ==
    /\ idx' = idx + 1
    /\ pc' = IF idx + 1 > Len(urls_it) THEN "save" ELSE "fetch"

\* mutant: a URL that raised makes the cycle return without its save
fetch_url_error_nosave ==
    /\ pc = "fetch"
    /\ pc' = "idle"
    /\ urls_it' = <<>>
    /\ idx' = 0
    /\ tried' = {}
    /\ failed' = {}
    /\ flats' = <<>>
    /\ last' = Done("fetch_url", 0, "error")
    /\ UNCHANGED <<engine, pending, disk, restarts, enqueued, cycles, persisted>>
    /\ UNCHANGED thr

\* mutant: an error of one URL ends the loop
fetch_url_error_abort ==
    /\ pc = "fetch"
    /\ tried' = tried \cup {urls_it[idx]}
    /\ failed' = failed \cup {urls_it[idx]}
    /\ idx' = Len(urls_it) + 1
    /\ pc' = "save"
    /\ flats' = <<>>
    /\ last' = Done("fetch_url", 0, "error")
    /\ UNCHANGED <<engine, pending, urls_it, disk, restarts, enqueued,
                   cycles, persisted>>
    /\ UNCHANGED thr

\* s.get / get_flatlist raises: the except clause logs, the loop goes on
fetch_url_error ==
    /\ pc = "fetch"
    /\ tried' = tried \cup {urls_it[idx]}
    /\ failed' = failed \cup {urls_it[idx]}
    /\ NextUrl
    /\ flats' = <<>>
    /\ last' = Done("fetch_url", 0, "error")
    /\ UNCHANGED <<engine, pending, urls_it, disk, restarts, enqueued,
                   cycles, persisted>>
    /\ UNCHANGED thr

\* lines 186-193: s.get and get_flatlist return the page's listings, each is
\* handled, then the queue is flushed; any one of the sends may raise
fetch_url_ok(items) ==
    /\ pc = "fetch"
    /\ tried' = tried \cup {urls_it[idx]}
    /\ flats' = items
    /\ LET st == HandleAll(items, [fl |-> flatlist, vw |-> viewed,
                                   sm |-> scheduled_messages])
           new == Appended(scheduled_messages, st.sm)
       IN /\ flatlist' = st.fl
          /\ viewed' = st.vw
          /\ enqueued' = [r \in Chats |-> [i \in Ids |->
                            enqueued[r][i] + Count(new, r, i)]]
          /\ \E failAt \in 0..Len(st.sm) :
                /\ scheduled_messages' = send_messages(st.sm, failAt)
                /\ last' = Done("fetch_url", Len(new),
                                IF failAt = 0 THEN "sent" ELSE "send error")
    /\ NextUrl
    /\ UNCHANGED <<observed_urls, pending, urls_it, disk, restarts, cycles,
                   persisted, failed>>
    /\ UNCHANGED thr

\* lines 198-200: self.save('.cian-backup')
save_backup ==
    /\ pc = "save"
    /\ disk' = [disk EXCEPT ![BackupDir] =
                  SaveFile(flatlist, viewed, scheduled_messages, observed_urls)]
    /\ persisted' = persisted \cup
          UNION {{<<ChatOf(viewed[n].k), i>> : i \in viewed[n].v} :
                 n \in 1..Len(viewed)}
    /\ pc' = "idle"
    /\ urls_it' = <<>>
    /\ idx' = 0
    /\ tried' = {}
    /\ failed' = {}
    /\ flats' = <<>>
    /\ last' = Done("save", 0, "ok")
    /\ UNCHANGED <<engine, pending, restarts, enqueued, cycles>>
    /\ UNCHANGED thr

\* the outcomes that are an exception leaving its handler or job
Uncaught == {"AttributeError", "TypeError", "OSError"}

\* self.save('.cian-backup') raises OSError: os.makedirs or open raised and
\* the file is as it was, or a write raised after open had emptied the file.
\* Line 199 is outside every try, so the exception leaves fetch_cian.
save_backup_error ==
    /\ pc = "save"
    /\ \/ UNCHANGED <<disk, persisted>>
       \/ /\ disk' = [disk EXCEPT ![BackupDir] = Torn]
          /\ persisted' = {}
    /\ pc' = "idle"
    /\ urls_it' = <<>>
    /\ idx' = 0
    /\ tried' = {}
    /\ failed' = {}
    /\ flats' = <<>>
    /\ last' = Done("save", 0, "OSError")
    /\ UNCHANGED <<engine, pending, restarts, enqueued, cycles>>
    /\ UNCHANGED thr

\* the process dies inside save, between open(..., 'w') and the end of
\* json.dump
crash_in_save ==
    /\ pc = "save"
    /\ disk' = [disk EXCEPT ![BackupDir] = Torn]
    /\ persisted' = {}
    /\ pc' = "stopped"
    /\ flatlist' = <<>>
    /\ viewed' = <<>>
    /\ scheduled_messages' = <<>>
    /\ observed_urls' = <<>>
    /\ pending' = 0
    /\ urls_it' = <<>>
    /\ idx' = 0
    /\ flats' = <<>>
    /\ tried' = {}
    /\ failed' = {}
    /\ last' = Done("crash", 0, "in save")
    /\ UNCHANGED <<restarts, enqueued, cycles>>
    /\ UNCHANGED thr

\* ------------------------------------------ fetch_cian on parallel threads
\* The job queue runs a job on a worker thread and the dispatcher runs the
\* handlers on its own thread; the program takes no lock.  Each step below
\* is one access to the shared engine state with the local computation
\* around it; thr[p].urls and thr[p].flats are what is left of the two for
\* loops, thr[p].size and thr[p].pos are the dict iterator of line 145.

\* the thread is done with a URL: on to the next one, or to the save
NextOf(t) ==
    [t EXCEPT !.urls = Tail(@), !.flats = <<>>, !.size = 0, !.pos = 0,
              !.u = <<>>, !.pc = IF Len(t.urls) > 1 THEN "get" ELSE "save"]

\* handle_new_flat has returned: on to the next listing, or to the flush
AfterFlat(t) ==
    [t EXCEPT !.flats = Tail(@), !.size = 0, !.pos = 0, !.u = <<>>,
              !.pc = IF Len(t.flats) > 1 THEN "check" ELSE "flush"]

\* lines 179-183: the job fires and finds a URL
t_begin(p) ==
    /\ pc = "idle"
    /\ thr[p].pc = "off"
    /\ Len(observed_urls) > 0
    /\ cycles + restarts < MaxCycles
    /\ cycles' = cycles + 1
    /\ IF p = "once"
       THEN pending > 0 /\ pending' = pending - 1
       ELSE UNCHANGED pending
    /\ thr' = [thr EXCEPT ![p] = [Off EXCEPT !.pc = "get",
                                             !.urls = observed_urls]]
    /\ last' = Done("fetch_cian", 0, p)
    /\ UNCHANGED <<engine, cycle, disk, restarts, enqueued, persisted, tried,
                   failed>>

\* lines 186-189 raise; the except clause of line 194 logs
t_get_error(p) ==
    /\ thr[p].pc = "get"
    /\ thr' = [thr EXCEPT ![p] = NextOf(@)]
    /\ last' = Done("fetch_cian", 0, p)
    /\ UNCHANGED <<engine, pending, cycle, disk, restarts, hist>>

\* lines 186-189 return the listings of the page
t_get_ok(p, items) ==
    /\ thr[p].pc = "get"
    /\ thr' = [thr EXCEPT ![p] = [@ EXCEPT !.flats = items,
                 !.pc = IF items = <<>> THEN "flush" ELSE "check"]]
    /\ last' = Done("fetch_cian", 0, p)
    /\ UNCHANGED <<engine, pending, cycle, disk, restarts, hist>>

\* line 139: if flat.id in self.flatlist: return
t_check(p) ==
    /\ thr[p].pc = "check"
    /\ thr' = [thr EXCEPT ![p] =
                 IF Has(flatlist, IntKey(Head(@.flats).id))
                 THEN AfterFlat(@) ELSE [@ EXCEPT !.pc = "store"]]
    /\ last' = Done("fetch_cian", 0, p)
    /\ UNCHANGED <<engine, pending, cycle, disk, restarts, hist>>

\* lines 141-144: store the listing, return if a filter fails
t_store(p) ==
    /\ thr[p].pc = "store"
    /\ flatlist' = Put(flatlist, IntKey(Head(thr[p].flats).id),
                       Head(thr[p].flats))
    /\ thr' = [thr EXCEPT ![p] =
                 IF flat_ok(Head(@.flats))
                 THEN [@ EXCEPT !.pc = "iter"] ELSE AfterFlat(@)]
    /\ last' = Done("fetch_cian", 0, p)
    /\ UNCHANGED <<viewed, scheduled_messages, observed_urls, pending, cycle,
                   disk, restarts, hist>>

\* line 145, iter(self.viewed): the iterator notes the size of the dict
t_iter(p) ==
    /\ thr[p].pc = "iter"
    /\ thr' = [thr EXCEPT ![p] = [@ EXCEPT !.size = Len(viewed), !.pos = 1,
                                           !.pc = "next"]]
    /\ last' = Done("fetch_cian", 0, p)
    /\ UNCHANGED <<engine, pending, cycle, disk, restarts, hist>>

\* line 145, next(): RuntimeError "dictionary changed size during iteration"
\* if a key was added since iter(), which the except clause of line 194
\* catches, behind the flush of line 192; else the next chat, or the end of
\* the loop
t_next(p) ==
    /\ thr[p].pc = "next"
    /\ LET t == thr[p]
       IN thr' = [thr EXCEPT ![p] =
                    IF Len(viewed) # t.size THEN NextOf(t)
                    ELSE IF t.pos > Len(viewed) THEN AfterFlat(t)
                    ELSE [t EXCEPT !.u = viewed[t.pos].k, !.pos = t.pos + 1,
                                   !.pc = "seen"]]
    /\ last' = Done("fetch_cian", 0, p)
    /\ UNCHANGED <<engine, pending, cycle, disk, restarts, hist>>

\* line 146: if flat.id in self.viewed[u]: continue
t_seen(p) ==
    /\ thr[p].pc = "seen"
    /\ LET t == thr[p]
       IN thr' = [thr EXCEPT ![p] =
                    [t EXCEPT !.pc = IF Head(t.flats).id \in Get(viewed, t.u)
                                     THEN "next" ELSE "append"]]
    /\ last' = Done("fetch_cian", 0, p)
    /\ UNCHANGED <<engine, pending, cycle, disk, restarts, hist>>

\* lines 148-150: self.scheduled_messages.append(msg)
t_append(p) ==
    /\ thr[p].pc = "append"
    /\ LET flat == Head(thr[p].flats)
           msg == flat_to_message(flat)
       IN /\ scheduled_messages' =
                Append(scheduled_messages,
                       [chat_id |-> thr[p].u, text |-> msg.text,
                        photo |-> msg.photo])
          /\ enqueued' = [enqueued EXCEPT ![ChatOf(thr[p].u)][flat.id] = @ + 1]
    /\ thr' = [thr EXCEPT ![p] = [@ EXCEPT !.pc = "mark"]]
    /\ last' = Done("fetch_cian", 0, p)
    /\ UNCHANGED <<flatlist, viewed, observed_urls, pending, cycle, disk,
                   restarts, cycles, persisted, tried, failed>>

\* line 151: self.viewed[u].add(flat.id), on the set the chat has now
t_mark(p) ==
    /\ thr[p].pc = "mark"
    /\ viewed' = Put(viewed, thr[p].u,
                     Get(viewed, thr[p].u) \cup {Head(thr[p].flats).id})
    /\ thr' = [thr EXCEPT ![p] = [@ EXCEPT !.pc = "next"]]
    /\ last' = Done("fetch_cian", 0, p)
    /\ UNCHANGED <<flatlist, scheduled_messages, observed_urls, pending, cycle,
                   disk, restarts, hist>>

\* line 192: the flush; any one of the sends may raise
t_flush(p) ==
    /\ thr[p].pc = "flush"
    /\ \E failAt \in 0..Len(scheduled_messages) :
          scheduled_messages' = send_messages(scheduled_messages, failAt)
    /\ thr' = [thr EXCEPT ![p] = NextOf(@)]
    /\ last' = Done("fetch_cian", 0, p)
    /\ UNCHANGED <<flatlist, viewed, observed_urls, pending, cycle, disk,
                   restarts, hist>>

\* lines 198-200: the save, and fetch_cian returns
t_save(p) ==
    /\ thr[p].pc = "save"
    /\ disk' = [disk EXCEPT ![BackupDir] =
                  SaveFile(flatlist, viewed, scheduled_messages, observed_urls)]
    /\ persisted' = persisted \cup
          UNION {{<<ChatOf(viewed[n].k), i>> : i \in viewed[n].v} :
                 n \in 1..Len(viewed)}
    /\ thr' = [thr EXCEPT ![p] = Off]
    /\ last' = Done("save", 0, "ok")
    /\ UNCHANGED <<engine, pending, cycle, restarts, enqueued, cycles, tried,
                   failed>>

\* ------------------------------------------------------- stop and restart
\* the process is gone, and its memory with it
Exit ==
    /\ pc' = "stopped"
    /\ flatlist' = <<>>
    /\ viewed' = <<>>
    /\ scheduled_messages' = <<>>
    /\ observed_urls' = <<>>
    /\ pending' = 0
    /\ urls_it' = <<>>
    /\ idx' = 0
    /\ flats' = <<>>
    /\ tried' = {}
    /\ failed' = {}

\* updater.idle() returns on a signal; the finally clause saves to state_dir
stop ==
    /\ pc = "idle"
    /\ disk' = [disk EXCEPT ![StateDir] =
                  SaveFile(flatlist, viewed, scheduled_messages, observed_urls)]
    /\ Exit
    /\ last' = Done("stop", 0, "ok")
    /\ UNCHANGED <<restarts, enqueued, cycles, persisted>>
    /\ UNCHANGED thr

\* the process dies without running the finally clause
crash ==
    /\ pc # "stopped"
    /\ Exit
    /\ last' = Done("crash", 0, "ok")
    /\ UNCHANGED <<disk, restarts, enqueued, cycles, persisted>>
    /\ UNCHANGED thr

\* __main__: from_directory(state_dir) if it exists, else CianBot()
restart ==
    /\ pc = "stopped"
    /\ restarts < MaxRestarts
    /\ restarts' = restarts + 1
    /\ IF disk[StateDir].exists
       THEN /\ flatlist' = LoadFlatlist(disk[StateDir])
            /\ viewed' = LoadViewed(disk[StateDir])
            /\ scheduled_messages' = disk[StateDir].scheduled_messages
            /\ observed_urls' = disk[StateDir].observed_urls
       ELSE /\ flatlist' = <<>>
            /\ viewed' = <<>>
            /\ scheduled_messages' = <<>>
            /\ observed_urls' = <<>>
    /\ pc' = "idle"
    /\ last' = Done("restart", 0, "ok")
    /\ UNCHANGED <<pending, urls_it, idx, flats, disk, enqueued, cycles,
                   persisted, tried, failed>>
    /\ UNCHANGED thr

\* ---------------------------------------------------------- specifications
Next ==
    \/ \E r \in Chats : start(r)
    \/ \E args \in SeqsUpTo(Urls, MaxArgs) : observe_url(args)
    \/ \E r \in Chats : fetch_messages(r)
    \/ periodic_job
    \/ once_job
    \/ fetch_url_error
    \/ \E items \in SeqsUpTo(Flats, MaxItems) : fetch_url_ok(items)
    \/ save_backup

\* one run of the process, from the empty state
Spec == Init /\ [][Next]_vars

NextRestart ==
    \/ Next
    \/ stop
    \/ crash
    \/ restart

\* the process stopped, killed and started again
SpecRestart == Init /\ [][NextRestart]_vars

\* one step of the loop of fetch_cian, whatever its URL does
UrlStep ==
    \/ fetch_url_error
    \/ \E items \in SeqsUpTo(Flats, MaxItems) : fetch_url_ok(items)

NextAgain ==
    \/ \E r \in Chats : start(r)
    \/ \E args \in SeqsUpTo(Urls, MaxArgs) : observe_url(args)
    \/ \E r \in Chats : fetch_messages(r)
    \/ periodic_job_again
    \/ once_job_again
    \/ fetch_url_error
    \/ \E items \in SeqsUpTo(Flats, MaxItems) : fetch_url_ok(items)
    \/ save_backup

\* a process that is never stopped: a job that is due runs, a loop that has
\* started goes on to its save; the periodic job is not assumed to fire
SpecOnce ==
    /\ Init /\ [][NextAgain]_vars
    /\ WF_vars(once_job_again)
    /\ WF_vars(UrlStep)
    /\ WF_vars(save_backup)

\* the same, and the periodic job fires again and again
SpecPeriodic == SpecOnce /\ WF_vars(periodic_job_again)

\* the process after /start from some chats and one /observe, whose one-off
\* job is waiting while the periodic job is due as well
InitThreads ==
    /\ \E regs \in SeqsUpTo(Chats, MaxChat) :
          /\ Cardinality(SeqToSet(regs)) = Len(regs)
          /\ viewed = [n \in 1..Len(regs) |-> [k |-> IntKey(regs[n]), v |-> {}]]
    /\ observed_urls = <<1>>
    /\ last = Done("observe_url", 1, "AttributeError")
    /\ pending = 1
    /\ flatlist = <<>>
    /\ scheduled_messages = <<>>
    /\ pc = "idle"
    /\ urls_it = <<>>
    /\ idx = 0
    /\ flats = <<>>
    /\ disk = [d \in Dirs |-> NoFile]
    /\ restarts = 0
    /\ enqueued = NoCount
    /\ cycles = 0
    /\ persisted = {}
    /\ tried = {}
    /\ failed = {}
    /\ thr = [p \in Jobs |-> Off]

NextThreads ==
    \/ \E r \in Chats : start(r)
    \/ \E p \in Jobs :
          \/ t_begin(p)
          \/ t_get_error(p)
          \/ \E items \in SeqsUpTo(Flats, MaxItems) : t_get_ok(p, items)
          \/ t_check(p)
          \/ t_store(p)
          \/ t_iter(p)
          \/ t_next(p)
          \/ t_seen(p)
          \/ t_append(p)
          \/ t_mark(p)
          \/ t_flush(p)
          \/ t_save(p)

\* one run of the process with its threads: the two jobs and the handlers
\* run in parallel, one access to the shared state at a time
SpecThreads == InitThreads /\ [][NextThreads]_vars

NextFaults ==
    \/ Next
    \/ save_backup_error
    \/ crash_in_save

\* one run of the process in which the save of a cycle can fail or be cut
\* short by the death of the process
SpecFaults == Init /\ [][NextFaults]_vars

\* ------------------------------------------------------------------ claims
\* the ledger entry of chat r as the handlers address it (an int chat_id)
SeenBy(vw, r) == IF Has(vw, IntKey(r)) THEN Get(vw, IntKey(r)) ELSE {}
Registered(vw) == {ChatOf(k) : k \in Keys(vw)}
Accepted(flat) == filter_price_per_person(flat) /\ filter_metro(flat)
FetchedOk == last'.op = "fetch_url" /\ last'.res # "error" /\ pc = "fetch"
Inserted(i) == ~ Has(flatlist, IntKey(i)) /\ Has(flatlist', IntKey(i))
\* what the last save of a cycle recorded for chat r
BackupSeen(r) ==
    IF disk[BackupDir].exists
    THEN UNION {SeqToSet(disk[BackupDir].viewed[n].v) :
                n \in {m \in 1..Len(disk[BackupDir].viewed) :
                         ChatOf(disk[BackupDir].viewed[m].k) = r}}
    ELSE {}

\* C1: between two /start of a chat, at most one message per chat and
\* listing is ever appended to scheduled_messages
C1_NoDuplicate == \A r \in Chats : \A i \in Ids : enqueued[r][i] <= 1

\* a later cycle returned a listing that a chat was notified of, and appended
\* nothing
C1_Witness ==
    /\ last.op = "fetch_url" /\ last.arg = 0 /\ last.res = "sent"
    /\ cycles = 2
    /\ \E n \in 1..Len(flats) : \E r \in Chats :
          /\ flats[n].id \in SeenBy(viewed, r)
          /\ flats[n].id \in BackupSeen(r)
          /\ enqueued[r][flats[n].id] = 1

\* C2: a stored listing that fails a predicate has no message appended for
\* any chat, in the step that stores it or later; a returned listing is stored
C2_FilterGating ==
    [][ /\ \A n \in 1..Len(flatlist') :
             ~ Accepted(flatlist'[n].v) =>
                 /\ \A r \in Chats : enqueued'[r][flatlist'[n].k[2]] = 0
                 /\ \A m \in 1..Len(scheduled_messages') :
                       scheduled_messages'[m].text[1] # flatlist'[n].k[2]
        /\ FetchedOk => \A n \in 1..Len(flats') :
                           Has(flatlist', IntKey(flats'[n].id)) ]_vars

\* a listing stored with failing attributes came back with passing ones, a
\* chat that never saw it is registered, another listing was notified
C2_Witness ==
    /\ last.op = "fetch_url" /\ last.res = "sent"
    /\ \E n \in 1..Len(flats) :
          /\ Accepted(flats[n])
          /\ ~ Accepted(Get(flatlist, IntKey(flats[n].id)))
          /\ \E r \in Registered(viewed) :
                /\ flats[n].id \notin SeenBy(viewed, r)
                /\ SeenBy(viewed, r) # {}

\* C3: a cycle requests every URL of its list although one raised, and the
\* URLs that answer have every newly stored, accepted listing appended for
\* every registered chat that has not seen it
C3_PartialFailureIsolation ==
    [][ /\ pc' = "save" => tried' = SeqToSet(urls_it')
        /\ FetchedOk =>
             /\ \A n \in 1..Len(flats') : Has(flatlist', IntKey(flats'[n].id))
             /\ \A i \in Ids :
                  (Inserted(i) /\ Accepted(Get(flatlist', IntKey(i)))) =>
                     \A r \in Registered(viewed) :
                        i \notin SeenBy(viewed, r) =>
                           enqueued'[r][i] = enqueued[r][i] + 1 ]_vars

\* the loop is over, one URL raised, and the URL after it had messages appended
C3_Witness ==
    /\ pc = "save"
    /\ failed # {}
    /\ tried = SeqToSet(urls_it)
    /\ last.op = "fetch_url" /\ last.res = "sent" /\ last.arg > 0
    /\ urls_it[1] \in failed

\* C4: when a step newly stores an accepted listing i while the chats R are
\* registered and none has seen i, exactly one message per chat of R is
\* appended, none for another chat, and i is in every notifiedSet of R
C4_OnePerRecipient ==
    [][ FetchedOk =>
          \A i \in Ids :
             ( /\ Inserted(i)
               /\ Accepted(Get(flatlist', IntKey(i)))
               /\ \A r \in Registered(viewed) : i \notin SeenBy(viewed, r) ) =>
                 /\ \A r \in Chats :
                      enqueued'[r][i] - enqueued[r][i] =
                          IF r \in Registered(viewed) THEN 1 ELSE 0
                 /\ \A r \in Registered(viewed) : i \in SeenBy(viewed', r) ]_vars

\* two chats registered, one URL step appended two messages for one listing
C4_Witness ==
    /\ last.op = "fetch_url" /\ last.arg = 2
    /\ Cardinality(Registered(viewed)) = 2
    /\ \E i \in Ids : \A r \in Chats :
          enqueued[r][i] = 1 /\ i \in SeenBy(viewed, r)

\* the URL step returned listing i
Returned(i) == FetchedOk /\ \E n \in 1..Len(flats') : flats'[n].id = i
\* chat r was notified of the stored, accepted listing i before a cycle's
\* save, and a later /start emptied its notifiedSet
Resubscribed(r, i) ==
    /\ Has(flatlist, IntKey(i))
    /\ Accepted(Get(flatlist, IntKey(i)))
    /\ i \in BackupSeen(r)
    /\ r \in Registered(viewed)
    /\ i \notin SeenBy(viewed, r)

\* C5 as stated: the next URL step that returns such a listing appends a
\* message for the chat that issued /start again
C5_Redelivered ==
    [][ \A r \in Chats : \A i \in Ids :
          (Resubscribed(r, i) /\ Returned(i)) =>
              enqueued'[r][i] = enqueued[r][i] + 1 ]_vars

\* C5 amended: a URL step that returns a listing already in flatlist appends
\* no message about it for any chat and marks it for none, also for a chat
\* whose notifiedSet /start has emptied
C5_StoredNotRedelivered ==
    [][ \A i \in Ids :
          (Returned(i) /\ Has(flatlist, IntKey(i))) =>
              \A r \in Chats :
                 /\ enqueued'[r][i] = enqueued[r][i]
                 /\ (i \in SeenBy(viewed', r)) = (i \in SeenBy(viewed, r)) ]_vars

\* a chat issued /start after it was notified of a listing, the listing came
\* back in a later cycle, and the chat has no message and no mark for it
C5_Witness ==
    /\ last.op = "fetch_url" /\ last.res # "error"
    /\ \E n \in 1..Len(flats) : \E r \in Chats :
          /\ Resubscribed(r, flats[n].id)
          /\ enqueued[r][flats[n].id] = 0

\* C6: every step keeps every key of flatlist and the value stored under it
C6_FirstWriteWins ==
    [][ \A n \in 1..Len(flatlist) :
          /\ Has(flatlist', flatlist[n].k)
          /\ Get(flatlist', flatlist[n].k) = flatlist[n].v ]_vars

\* a later cycle returned a stored id with other attributes, the stored ones
\* stayed
C6_Witness ==
    /\ last.op = "fetch_url" /\ last.res # "error"
    /\ cycles = 2
    /\ \E n \in 1..Len(flats) :
          /\ Has(flatlist, IntKey(flats[n].id))
          /\ Get(flatlist, IntKey(flats[n].id)) # flats[n]

\* the entries of dict d are the entries of the saved object e, an int key
\* and the string of its digits counting as the same key
SameMap(d, e) ==
    /\ \A n \in 1..Len(d) :
          Has(e, JsonKey(d[n].k)) /\ Get(e, JsonKey(d[n].k)) = d[n].v
    /\ \A m \in 1..Len(e) : \E n \in 1..Len(d) : JsonKey(d[n].k) = e[m].k
SameLedger(d, e) ==
    /\ \A n \in 1..Len(d) :
          Has(e, JsonKey(d[n].k)) /\ SeqToSet(Get(e, JsonKey(d[n].k))) = d[n].v
    /\ \A m \in 1..Len(e) : \E n \in 1..Len(d) : JsonKey(d[n].k) = e[m].k

\* C7: the engine state, saved, loaded and saved again, has the same listings
\* with the same attributes, the same chats with the same id sets, the same
\* queue and the same URL list
C7_RoundTrip ==
    LET f == SaveFile(flatlist, viewed, scheduled_messages, observed_urls)
        g == SaveFile(LoadFlatlist(f), LoadViewed(f), f.scheduled_messages,
                      f.observed_urls)
    IN /\ SameMap(flatlist, g.flatlist)
       /\ SameLedger(viewed, g.viewed)
       /\ g.scheduled_messages = scheduled_messages
       /\ g.observed_urls = observed_urls

\* C8: a restart loads the listings and the notifiedSets a completed cycle
\* saved, and no step appends a message for a pair such a save recorded
C8_SurvivesRestart ==
    [][ /\ last'.op = "restart" =>
             /\ \A p \in persisted :
                   \E n \in 1..Len(viewed') :
                      ChatOf(viewed'[n].k) = p[1] /\ p[2] \in viewed'[n].v
             /\ disk[BackupDir].exists =>
                   \A n \in 1..Len(disk[BackupDir].flatlist) :
                      Has(flatlist', disk[BackupDir].flatlist[n].k)
        /\ \A p \in persisted :
              enqueued'[p[1]][p[2]] <= enqueued[p[1]][p[2]] ]_vars

\* C9: fetch_messages of chat r appends one message for every stored,
\* accepted listing r has not seen, marks it for r and leaves the queue empty
C9_Backlog ==
    [][ last'.op = "fetch_messages" =>
          /\ \A n \in 1..Len(flatlist) :
                LET i == flatlist[n].k[2] IN
                (Accepted(flatlist[n].v) /\ i \notin SeenBy(viewed, last'.arg)) =>
                    /\ enqueued'[last'.arg][i] = enqueued[last'.arg][i] + 1
                    /\ i \in SeenBy(viewed', last'.arg)
          /\ scheduled_messages' = <<>> ]_vars

\* C10: /start of chat r leaves r registered with an empty notifiedSet and
\* changes no other ledger entry, nor flatlist, the queue or the URL list
C10_StartFrame ==
    [][ last'.op = "start" =>
          /\ Has(viewed', IntKey(last'.arg))
          /\ Get(viewed', IntKey(last'.arg)) = {}
          /\ Keys(viewed') = Keys(viewed) \cup {IntKey(last'.arg)}
          /\ \A k \in Keys(viewed) \ {IntKey(last'.arg)} :
                Get(viewed', k) = Get(viewed, k)
          /\ UNCHANGED <<flatlist, scheduled_messages, observed_urls>> ]_vars

\* /start emptied a populated notifiedSet while another chat keeps its own
\* and messages wait in the queue
C10_Witness ==
    /\ last.op = "start"
    /\ SeenBy(viewed, last.arg) = {}
    /\ BackupSeen(last.arg) # {}
    /\ \E r \in Chats \ {last.arg} : SeenBy(viewed, r) # {}
    /\ scheduled_messages # <<>>
    /\ observed_urls # <<>>

\* C11: /observe with a number of arguments other than one returns without
\* an exception, having told the caller, and changes neither the URL list,
\* the rest of the engine state nor the job queue
C11_ArityError ==
    [][ (last'.op = "observe_url" /\ last'.arg = 0) =>
          /\ last'.res = "ok"
          /\ UNCHANGED <<engine, pending>> ]_vars

\* C12: the flush after a URL's items leaves the queue empty although one of
\* its sends raised
C12_FlushDrains ==
    [][ (last'.op = "fetch_url" /\ last'.res = "send error") =>
          scheduled_messages' = <<>> ]_vars

\* C20: every listing id in a chat's notifiedSet (viewed) is a key of
\* flatlist
C20_ViewedStored ==
    \A n \in 1..Len(viewed) : \A i \in viewed[n].v : Has(flatlist, IntKey(i))

\* a chat that was marked for a listing issued /start, a second chat still
\* holds the mark, and /fetchMessages has run
C20_Witness ==
    /\ last.op = "fetch_messages"
    /\ \E r \in Chats : SeenBy(viewed, r) # {}
    /\ \E r \in Registered(viewed) : SeenBy(viewed, r) = {} /\ BackupSeen(r) # {}

\* C15: a fetch_cian call that finds a URL enters the loop, leaves it only
\* for the save and only when every URL of its list was requested, and the
\* cycle ends by writing the whole engine state, whatever its URLs did
C15_CycleEndsWithPersist ==
    [][ /\ (last'.op = "fetch_cian" /\ Len(observed_urls) > 0) => pc' = "fetch"
        /\ (pc = "fetch" /\ pc' # "fetch") =>
              pc' = "save" /\ tried' = SeqToSet(urls_it)
        /\ (pc # "idle" /\ pc' = "idle") =>
              /\ pc = "save"
              /\ UNCHANGED engine
              /\ disk'[BackupDir] = SaveFile(flatlist, viewed,
                                             scheduled_messages, observed_urls) ]_vars

\* a cycle over two URLs, whose last flush met a send error, has saved the
\* state with the message that flush left behind
C15_Witness ==
    /\ last.op = "save" /\ last.res = "ok"
    /\ Len(observed_urls) = 2
    /\ scheduled_messages # <<>>
    /\ disk[BackupDir] = SaveFile(flatlist, viewed, scheduled_messages,
                                  observed_urls)

\* C16: a save that fails at the end of a cycle raises nothing out of
\* fetch_cian and leaves the engine state in memory as it was
C16_PersistFailureContained ==
    [][ (pc = "save" /\ last'.op = "save" /\ last'.res # "ok") =>
          /\ last'.res \notin Uncaught
          /\ UNCHANGED engine ]_vars

\* C17: when the process dies, every state file holds what it held before
\* or the whole state the interrupted save was writing
C17_AtomicWrite ==
    [][ last'.op = "crash" =>
          \A d \in Dirs :
             \/ disk'[d] = disk[d]
             \/ disk'[d] = SaveFile(flatlist, viewed, scheduled_messages,
                                    observed_urls) ]_vars

\* C18: /observe with the one argument u puts u in observed_urls and adds a
\* one-off job although its acknowledgement raises; a one-off job that fires
\* starts a pass over the URL list of that moment; and u is requested by a
\* pass without the periodic job being assumed to fire
C18_OneOffPass ==
    /\ [][ /\ \A u \in Urls :
                 (last'.op = "observe_url" /\ last'.arg = u) =>
                     /\ u \in SeqToSet(observed_urls')
                     /\ pending' = pending + 1
           /\ pending' < pending =>
                 pc' = "fetch" /\ urls_it' = observed_urls ]_vars
    /\ \A u \in Urls :
          (last.op = "observe_url" /\ last.arg = u) ~> (u \in tried)

\* the first pass of the process, started by the one-off job, has requested
\* every observed URL
C18_Witness ==
    /\ pending = 0
    /\ pc = "save"
    /\ disk[BackupDir] = NoFile
    /\ observed_urls # <<>>
    /\ tried = SeqToSet(observed_urls)

\* a message for chat r about listing i waits in the queue
Queued(r, i) ==
    \E n \in 1..Len(scheduled_messages) :
       /\ ChatOf(scheduled_messages[n].chat_id) = r
       /\ scheduled_messages[n].text[1] = i

\* C19: every message in scheduled_messages is taken out of it at some later
\* time, the periodic job firing again and again
C19_EventuallySent ==
    \A r \in Chats : \A i \in Ids : Queued(r, i) ~> ~ Queued(r, i)

\* C13: with the periodic and the one-off pass running at the same time, a
\* message for a chat and a listing is appended only if none was appended
\* for that pair since the chat's last /start
C13_OverlapNoDuplicate ==
    [][ \A r \in Chats : \A i \in Ids :
          enqueued'[r][i] > enqueued[r][i] => enqueued[r][i] = 0 ]_vars

\* C14: when a pass leaves the loop over the chats for a listing it has
\* stored and accepted, every chat that was registered when the pass began
\* and has issued no /start since has had a message about that listing
\* appended, whatever /start another chat has issued meanwhile
C14_NoListingLost ==
    [][ \A p \in Jobs :
          (thr[p].pc = "next" /\ thr'[p].pc \notin {"next", "seen"}) =>
             \A u \in Registered(viewed) \ thr[p].started :
                enqueued'[u][Head(thr[p].flats).id] >= 1 ]_vars

====
